---------------------------- MODULE Spec2Model ----------------------------
(***************************************************************************)
(* Model of the capnp notification examples:                               *)
(*   - the pull-mode notifier   (src/src/notifier_server_example.cpp)      *)
(*   - the push-mode notifier   (src/src/polling_server.cpp)               *)
(*   - RepeatingTimerWithCancel (src/include/repeating_timer_with_cancel.hpp)*)
(*   - timeoutSafe              (src/src/delay_example.cpp, part_002)      *)
(*   - the executor example     (src/src/executer_example.cpp)             *)
(* Each component has its own specification (SpecPull, SpecPush,           *)
(* SpecTimer, SpecGuard, SpecExec); a component's actions leave the other  *)
(* components' variables unchanged.  One action is one turn of the         *)
(* single-threaded KJ event loop: an RPC handler, a timer continuation or  *)
(* a promise continuation.                                                 *)
(***************************************************************************)
EXTENDS Integers, Sequences, FiniteSets, TLC

\* ------------------------------------------------------------------ bounds
\* subscribe calls made on the pull-mode notifier
MaxSubs == 3
\* heap slots a SharedState can be allocated at
MaxAddr == 2
\* read() calls started on the pull-mode notifier's streams, all together
MaxReads == 2
\* subscribe calls made on the push-mode notifier
MaxPushSubs == 3
\* broadcast ticks of the push-mode loop
MaxTicks == 2
\* start() calls on one RepeatingTimerWithCancel
MaxStarts == 2
\* callback invocations of one RepeatingTimerWithCancel
MaxFires == 3
\* timeoutSafe calls made one after the other
MaxCalls == 2
\* 100 ms steps of a ReusableTask: totalMs is at most MaxSteps * StepMs
MaxSteps == 3
\* the timeout handed to timeoutSafe, in steps of 100 ms
MaxTimeout == 3
\* 100 ms steps a function can spin without returning to the event loop
MaxBusy == 2
\* last step of the clock of one timeoutSafe call
MaxTime == 4
\* client processes connected to the pull-mode server
MaxClients == 2
\* the largest totalMs a ReusableTask is constructed with
MaxTotalMs == 350
\* 100 ms delays one ReusableTask is followed for
MaxTaskSteps == 5
\* notifications the push-mode client receives
MaxNotes == 3
\* the largest id of the first notification the push-mode client receives
MaxFirstId == 2
\* the recursivePrint calls of the push-mode client are counted modulo this
MaxPrints == 6
\* threads that log through LOG_COUT
MaxLogThreads == 2
\* messages one thread logs
MaxLogMsgs == 1

\* 2^16: a uint32_t is two halves of this size
Word == 65536

\* ReusableTask waits in steps of 100 ms
StepMs == 100

\* ------------------------------------------------------------------ state
VARIABLES
    \* --- pull mode: NotifierImpl, StreamImpl, SubscriptionImpl
    pull_timer_ptr_,   \* NotifierImpl::timer_ptr_ # nullptr
    state_,            \* NotifierImpl::state_: the one SharedState the notifier owns
    ref,               \* ref[k]: address the k-th stream/subscription pair refers to
    counter,           \* counter[k]: StreamImpl::counter of the k-th stream
    pending,           \* pending[k]: reads of stream k waiting for their 200 ms delay
    readsStarted,      \* read() calls started so far
    cancelDone,        \* cancelDone[k]: a cancel() of subscription k has been processed
    issued,            \* ids issued by the notifier's streams, in order of issue
    delivered,         \* delivered[k]: ids the completed reads of stream k returned
    readsOk,           \* readsOk[k]: read() calls of stream k that passed the check
    pullLast,          \* the last RPC call the pull notifier processed
    \* --- push mode: PollingNotifierImpl, PollingSubscriptionImpl
    push_timer_ptr_,   \* PollingNotifierImpl::timer_ptr_ # nullptr
    task_set_,         \* PollingNotifierImpl::task_set_ # nullptr
    subscriptions_,    \* the registry: weak entries, in subscription order
    nstates,           \* PollingSubscriptionState objects created so far
    held,              \* held[s]: the client still holds the subscription handle of s
    cancelled,         \* cancelled[s]: PollingSubscriptionState::cancelled
    pushCancelDone,    \* pushCancelDone[s]: a cancel() of s has been processed
    notification_counter_,
    loop,              \* where the promise chain of startNotificationLoop stands
    dispatches,        \* onNotification requests sent and not yet forgotten
    tickNo,            \* sendNotifications calls so far
    lastPruned,        \* states whose entry the last prune removed
    lastFailTick,      \* tick of the last dispatch that failed
    \* --- RepeatingTimerWithCancel with its kj::Canceler and kj::TaskSet
    callback,          \* the stored std::function: what it does when invoked
    nDelay,            \* tasks whose wrapped delay is pending
    nRejected,         \* tasks rejected by cancel, their catch_ has not run yet
    fired,             \* callback invocations
    starts,            \* start() calls
    timerLog,          \* "Timer canceled" log entries
    callbackFailed,    \* callback invocations that ended with an exception
    taskFailed,        \* SimpleErrorHandler::taskFailed calls
    cancelSeen,        \* cancel() was called on the Running timer since the last start
    firedAfterCancel,  \* the callback was invoked while cancelSeen
    idleCancelled,     \* cancel() was called while no delay was pending
    timerLast,         \* the last operation on the timer and the chains it rejected
    \* --- timeoutSafe and the operation it guards
    variant,           \* which timeoutSafe the call runs
    opKind,            \* what the guarded promise does
    remaining,         \* ReusableTask::remaining, in ms
    opState,           \* where the guarded operation stands
    opDue,             \* when the pending 100 ms delay of the operation expires
    opDoneAt,          \* when the operation ran to its end, -1 if it has not
    deadline,          \* when the timeout delay expires
    now,               \* the clock, in steps of 100 ms since the call
    doneFlag,          \* *doneFlag
    timeoutP,          \* where the timeout branch stands
    result,            \* what the promise timeoutSafe returned has become
    cancelCalls,       \* canceler->cancel("timeout") calls of this call
    calls,             \* timeoutSafe calls so far
    guardLast,         \* the last step of the race
    attached,          \* cancelerOwn and doneOwn are allocated
    \* --- executer_example: main, its event loop and the worker thread
    mainPc,            \* where main stands
    workerPc,          \* where the worker thread stands
    xthread,           \* requests handed to the executor and not yet run
    loopQueue,         \* events queued on main's event loop
    ranOn,             \* ranOn[f]: the thread the function f ran on
    submittedBy,       \* submittedBy[f]: the thread that handed f over
    taskSetAdds,       \* the threads that called taskSet.add, in order
    taskSetTasks,      \* tasks in the task set of executer_example
    exeDone,           \* the promise of executeAsync has resolved
    execLog,           \* the lines the functions logged, with the logging thread
    printed,           \* lines of execLog the log thread has written to std::cout
    \* --- notifier_client_example: the pull-mode clients of one server
    clientPc,          \* clientPc[c]: where main of client c stands
    session,           \* session[c]: the subscription and stream client c was given
    cancelTimer,       \* cancelTimer[c]: the 5 s timer of c and its cancel request
    notesAfterCancel,  \* notifications c received after its cancel was processed
    \* --- one ReusableTask
    taskTotal,         \* the totalMs the task was constructed with
    taskRemaining,     \* uint32_t remaining, as its two 16-bit halves
    taskState,         \* constructed, waiting for a 100 ms delay, or complete
    taskSteps,         \* 100 ms delays the task has waited for
    \* --- polling_client: the push-mode client
    pollMain,          \* where main of the client stands
    is_start_,         \* NotificationReceiverImpl::is_start_
    pollCancel,        \* the 10 s timer task that sends the cancel
    pollChain,         \* recursivePrint tasks in task_set
    pollReader,        \* id of the notification recursivePrint holds, -1: none
    pollNotes,         \* notifications received
    pollPrints,        \* recursivePrint calls, counted modulo MaxPrints
    \* --- AsyncLogQueue: logging threads, the worker thread, stop()
    log_queue_,        \* AsyncLogQueue::log_queue_
    queue_mutex_,      \* the thread that holds queue_mutex_, or "free"
    stop_flag_,        \* AsyncLogQueue::stop_flag_
    initialized_,      \* AsyncLogQueue::initialized_
    init_flag,         \* the std::once_flag of ensureInitialized has been used
    workerThreads,     \* worker threads created so far
    logWorkerPc,       \* where the worker thread stands
    cvWoken,           \* the worker, blocked in cv_.wait, has been notified
    loggerPc,          \* loggerPc[t]: where the logging thread t stands
    logSent,           \* logSent[t]: messages thread t has enqueued
    logEnqueued,       \* every message pushed, in the order of the pushes
    logPrinted,        \* the messages written to std::cout, in order
    stopPc             \* where the thread that calls stop() stands

pullVars  == <<pull_timer_ptr_, state_, ref, counter, pending, readsStarted,
               cancelDone, issued, delivered, readsOk, pullLast>>
pushVars  == <<push_timer_ptr_, task_set_, subscriptions_, nstates, held,
               cancelled, pushCancelDone, notification_counter_, loop, dispatches,
               tickNo, lastPruned, lastFailTick>>
timerVars == <<callback, nDelay, nRejected, fired, starts, timerLog,
               callbackFailed, taskFailed, cancelSeen, firedAfterCancel, idleCancelled, timerLast>>
guardVars == <<variant, opKind, remaining, opState, opDue, opDoneAt, deadline, now,
               doneFlag, timeoutP, result, cancelCalls, calls, guardLast, attached>>
execVars == <<mainPc, workerPc, xthread, loopQueue, ranOn, submittedBy, taskSetAdds,
              taskSetTasks, exeDone, execLog, printed>>
clientVars == <<clientPc, session, cancelTimer, notesAfterCancel>>
taskVars == <<taskTotal, taskRemaining, taskState, taskSteps>>
pollVars == <<pollMain, is_start_, pollCancel, pollChain, pollReader, pollNotes, pollPrints>>
logVars == <<log_queue_, queue_mutex_, stop_flag_, initialized_, init_flag, workerThreads,
             logWorkerPc, cvWoken, loggerPc, logSent, logEnqueued, logPrinted, stopPc>>
vars == <<pullVars, pushVars, timerVars, guardVars, execVars, clientVars, taskVars, pollVars, logVars>>

Range(s) == {s[i] : i \in DOMAIN s}

\* =================================================================== pull
Subs == 1..MaxSubs
Addr == 1..MaxAddr
\* state_ when the kj::Own is empty
NoState == [addr |-> 0, cancelled |-> FALSE]

PullInit ==
    /\ pull_timer_ptr_ = FALSE
    /\ state_ = NoState
    /\ ref = [k \in Subs |-> 0]
    /\ counter = [k \in Subs |-> 0]
    /\ pending = [k \in Subs |-> 0]
    /\ readsStarted = 0
    /\ cancelDone = [k \in Subs |-> FALSE]
    /\ issued = <<>>
    /\ delivered = [k \in Subs |-> <<>>]
    /\ readsOk = [k \in Subs |-> 0]
    /\ pullLast = [op |-> "none", k |-> 0, afterCancel |-> FALSE,
                   outcome |-> "none", changed |-> FALSE]

\* handles created so far
Handles == {k \in Subs : ref[k] # 0}

\* The SharedState a handle refers to is alive iff it is the one state_ owns:
\* StreamImpl and SubscriptionImpl keep a SharedState&, not an owner.
Alive(k) == ref[k] # 0 /\ ref[k] = state_.addr

\* state.cancelled.load() through the reference of handle k: the flag of the
\* state living at that address, or any value when the state was destroyed.
Load(k) == IF Alive(k) THEN {state_.cancelled} ELSE BOOLEAN

\* state.cancelled.store(true) through the reference of handle k: it changes
\* the state living at that address (a write into freed memory changes no
\* state of the model).
Store(k) == IF Alive(k) THEN [state_ EXCEPT !.cancelled = TRUE] ELSE state_

\* main: notifierRaw->setTimer(timer)
PullSetTimer ==
    /\ ~pull_timer_ptr_
    /\ pull_timer_ptr_' = TRUE
    /\ pullLast' = [op |-> "setTimer", k |-> 0, afterCancel |-> FALSE,
                    outcome |-> "ok", changed |-> FALSE]
    /\ UNCHANGED <<state_, ref, counter, pending, readsStarted, cancelDone, issued,
                   delivered, readsOk>>

\* NotifierImpl::subscribe.  state_ = kj::heap<SharedState>() allocates the new
\* state first (at an address that is free while the old state still lives)
\* and then destroys the state state_ owned before.
PullSubscribe ==
    /\ pull_timer_ptr_
    /\ \E k \in Subs, a \in Addr :
        /\ ref[k] = 0
        /\ \A j \in Subs : j < k => ref[j] # 0
        /\ a # state_.addr
        /\ state_' = [addr |-> a, cancelled |-> FALSE]
        /\ ref' = [ref EXCEPT ![k] = a]
        /\ pullLast' = [op |-> "subscribe", k |-> k, afterCancel |-> FALSE,
                        outcome |-> "ok", changed |-> FALSE]
    /\ UNCHANGED <<pull_timer_ptr_, counter, pending, readsStarted, cancelDone, issued,
                   delivered, readsOk>>

\* NotifierImpl::subscribe with no timer: KJ_REQUIRE fails, nothing is created.
PullSubscribeNoTimer ==
    /\ ~pull_timer_ptr_
    /\ pullLast' = [op |-> "subscribe", k |-> 0, afterCancel |-> FALSE,
                    outcome |-> "Timer not set!", changed |-> FALSE]
    /\ UNCHANGED <<pull_timer_ptr_, state_, ref, counter, pending, readsStarted,
                   cancelDone, issued, delivered, readsOk>>

\* SubscriptionImpl::cancel on the k-th subscription
PullCancel ==
    \E k \in Handles, seen \in BOOLEAN :
        /\ seen \in Load(k)
        /\ state_' = IF seen THEN state_ ELSE Store(k)
        /\ cancelDone' = [cancelDone EXCEPT ![k] = TRUE]
        /\ pullLast' = [op |-> "cancel", k |-> k, afterCancel |-> cancelDone[k],
                        outcome |-> IF seen THEN "already cancelled" ELSE "cancel()",
                        changed |-> state_' # state_]
        /\ UNCHANGED <<pull_timer_ptr_, ref, counter, pending, readsStarted, issued,
                       delivered, readsOk>>

\* StreamImpl::read on the k-th stream, up to the return of the promise
PullRead ==
    /\ readsStarted < MaxReads
    /\ \E k \in Handles, seen \in BOOLEAN :
        /\ seen \in Load(k)
        /\ pending' = IF seen THEN pending ELSE [pending EXCEPT ![k] = @ + 1]
        /\ readsOk' = IF seen THEN readsOk ELSE [readsOk EXCEPT ![k] = @ + 1]
        /\ pullLast' = [op |-> "read", k |-> k, afterCancel |-> cancelDone[k],
                        outcome |-> IF seen THEN "stream closed" ELSE "waiting",
                        changed |-> FALSE]
    /\ readsStarted' = readsStarted + 1
    /\ UNCHANGED <<pull_timer_ptr_, state_, ref, counter, cancelDone, issued, delivered>>

\* n.setId(++counter)
SetIdPreIncrement(c) == [id |-> c + 1, counter |-> c + 1]

\* n.setId(counter++): the id is the value before the increment
SetId(c) == [id |-> c, counter |-> c + 1]

\* the continuation of a read of stream k, when its delay has expired
PullReadComplete ==
    \E k \in Handles :
        /\ pending[k] > 0
        /\ pending' = [pending EXCEPT ![k] = @ - 1]
        /\ issued' = Append(issued, SetId(counter[k]).id)
        /\ delivered' = [delivered EXCEPT ![k] = Append(@, SetId(counter[k]).id)]
        /\ counter' = [counter EXCEPT ![k] = SetId(@).counter]
        /\ pullLast' = [op |-> "notify", k |-> k, afterCancel |-> cancelDone[k],
                        outcome |-> "notification", changed |-> FALSE]
        /\ UNCHANGED <<pull_timer_ptr_, state_, ref, readsStarted, cancelDone, readsOk>>


\* =================================================================== push
States == 1..MaxPushSubs

PushInit ==
    /\ push_timer_ptr_ = FALSE
    /\ task_set_ = FALSE
    /\ subscriptions_ = <<>>
    /\ nstates = 0
    /\ held = [s \in States |-> FALSE]
    /\ cancelled = [s \in States |-> FALSE]
    /\ pushCancelDone = [s \in States |-> FALSE]
    /\ notification_counter_ = 0
    /\ loop = "unset"
    /\ dispatches = {}
    /\ tickNo = 0
    /\ lastPruned = {}
    /\ lastFailTick = 0

\* std::vector<std::shared_ptr<...>> in place of weak_ptr
RegistryOwnsStrong == TRUE

\* subscriptions_ is a std::vector<std::weak_ptr<PollingSubscriptionState>>:
\* an entry is no owner of its state.
RegistryOwns == FALSE

\* The state s exists: some std::shared_ptr owns it.  Outside subscribe and
\* sendNotifications the only shared_ptr is the member of the
\* PollingSubscriptionImpl the client's handle keeps alive.
Reachable(s) == held[s] \/ (RegistryOwns /\ s \in Range(subscriptions_))

\* lock() that always succeeds
ExpiredNever(s) == FALSE

\* weak_state.lock() returns an empty pointer
Expired(s) == ~Reachable(s)

\* a predicate that looks at lock() only
PruneDropExpiredOnly(s) == Expired(s)

\* the predicate handed to std::remove_if
PruneDrop(s) == Expired(s) \/ cancelled[s]

\* subscriptions_.erase(std::remove_if(...), subscriptions_.end())
Prune(subs) == SelectSeq(subs, LAMBDA s : ~PruneDrop(s))

\* the loop's own check: if (!state || state->cancelled.load()) continue;
Skip(s) == Expired(s) \/ cancelled[s]

\* the entries the for loop sends to, in order
Targets(subs) == SelectSeq(subs, LAMBDA s : ~Skip(s))

\* a loop that leaves after its first send
NewDispatchesFirstOnly(targets, tick, first) ==
    {[tick |-> tick, sub |-> targets[i], id |-> first + i - 1,
      method |-> "onNotification", status |-> "sent"] : i \in DOMAIN targets \cap {1}}

\* the requests the for loop sends: one per target, ids notification_counter_++
NewDispatches(targets, tick, first) ==
    {[tick |-> tick, sub |-> targets[i], id |-> first + i - 1,
      method |-> "onNotification", status |-> "sent"] : i \in DOMAIN targets}

\* a cancel that does not store
CancelStoreNothing(old) == old

\* PollingSubscriptionImpl::cancel: the value of cancelled after the call
CancelStore(old) == IF old THEN old ELSE TRUE

\* req.send() without the catch_
SettleUncaught(ok) == IF ok THEN "ok" ELSE "uncaught"

\* req.send().then(log).catch_(log): a failure ends in the catch_ and the
\* promise handed to joinPromises resolves
Settle(ok) == IF ok THEN "ok" ELSE "failed"

\* sendNotifications that returns without waiting for its requests
JoinPromisesNoWait(ds) == TRUE

\* kj::joinPromises resolves when every promise has; with no promise
\* sendNotifications returns READY_NOW
JoinPromises(ds) == \A d \in ds : d.status # "sent"

\* main: notifierRaw->setTaskSet(taskSet)
PushSetTaskSet ==
    /\ loop # "crashed"
    /\ ~task_set_
    /\ task_set_' = TRUE
    /\ UNCHANGED <<push_timer_ptr_, subscriptions_, nstates, held, cancelled,
                   pushCancelDone, notification_counter_, loop, dispatches,
                   tickNo, lastPruned, lastFailTick>>

\* PollingNotifierImpl::sendNotifications, its synchronous part: the prune,
\* then one request per remaining entry
SendNotifications ==
    LET pruned  == Prune(subscriptions_)
        targets == Targets(pruned)
    IN  /\ subscriptions_' = pruned
        /\ lastPruned' = Range(subscriptions_) \ Range(pruned)
        /\ dispatches' = {d \in dispatches : d.status = "sent"}
                           \cup NewDispatches(targets, tickNo + 1, notification_counter_)
        /\ notification_counter_' = notification_counter_ + Len(targets)
        /\ tickNo' = tickNo + 1

\* PollingNotifierImpl::setTimer: stores the timer and starts the loop, which
\* runs the first sendNotifications and adds the chain to *task_set_
PushSetTimer ==
    /\ loop = "unset"
    /\ ~push_timer_ptr_
    /\ push_timer_ptr_' = TRUE
    /\ SendNotifications
    /\ loop' = IF task_set_ THEN "joining" ELSE "crashed"
    /\ UNCHANGED <<task_set_, nstates, held, cancelled, pushCancelDone, lastFailTick>>

\* PollingNotifierImpl::subscribe
PushSubscribe ==
    /\ loop # "crashed"
    /\ nstates < MaxPushSubs
    /\ nstates' = nstates + 1
    /\ subscriptions_' = Append(subscriptions_, nstates + 1)
    /\ held' = [held EXCEPT ![nstates + 1] = TRUE]
    /\ UNCHANGED <<push_timer_ptr_, task_set_, cancelled, pushCancelDone,
                   notification_counter_, loop, dispatches, tickNo, lastPruned,
                   lastFailTick>>

\* PollingSubscriptionImpl::cancel, called through the handle of s
PushCancel ==
    /\ loop # "crashed"
    /\ \E s \in States :
        /\ held[s]
        /\ cancelled' = [cancelled EXCEPT ![s] = CancelStore(@)]
        /\ pushCancelDone' = [pushCancelDone EXCEPT ![s] = TRUE]
    /\ UNCHANGED <<push_timer_ptr_, task_set_, subscriptions_, nstates, held,
                   notification_counter_, loop, dispatches, tickNo, lastPruned,
                   lastFailTick>>

\* the client drops its PollingSubscription handle: the PollingSubscriptionImpl
\* and with it the last shared_ptr to the state are destroyed
PushDropHandle ==
    /\ loop # "crashed"
    /\ \E s \in States :
        /\ held[s]
        /\ held' = [held EXCEPT ![s] = FALSE]
    /\ UNCHANGED <<push_timer_ptr_, task_set_, subscriptions_, nstates, cancelled,
                   pushCancelDone, notification_counter_, loop, dispatches,
                   tickNo, lastPruned, lastFailTick>>

\* one onNotification request settles: the receiver answered, or the call failed
PushSettle ==
    /\ loop # "crashed"
    /\ \E d \in dispatches, ok \in BOOLEAN :
        /\ d.status = "sent"
        /\ dispatches' = (dispatches \ {d}) \cup {[d EXCEPT !.status = Settle(ok)]}
        /\ lastFailTick' = IF ok THEN lastFailTick ELSE d.tick
    /\ UNCHANGED <<push_timer_ptr_, task_set_, subscriptions_, nstates, held,
                   cancelled, pushCancelDone, notification_counter_, loop,
                   tickNo, lastPruned>>

\* the promise of sendNotifications resolves: .then(afterDelay(1 s)) runs; a
\* rejected join skips to the catch_ of startNotificationLoop, which only logs
PushJoinDone ==
    /\ loop = "joining"
    /\ JoinPromises({d \in dispatches : d.tick = tickNo})
    /\ loop' = IF \E d \in dispatches : d.tick = tickNo /\ d.status = "uncaught"
               THEN "error" ELSE "delay"
    /\ UNCHANGED <<push_timer_ptr_, task_set_, subscriptions_, nstates, held,
                   cancelled, pushCancelDone, notification_counter_, dispatches,
                   tickNo, lastPruned, lastFailTick>>

\* the 1 s delay expires: .then(startNotificationLoop) runs the next
\* sendNotifications
PushTick ==
    /\ loop = "delay"
    /\ tickNo < MaxTicks
    /\ SendNotifications
    /\ loop' = "joining"
    /\ UNCHANGED <<push_timer_ptr_, task_set_, nstates, held, cancelled,
                   pushCancelDone, lastFailTick>>


\* ================================================================== timer
\* what a std::function handed to start() does when it is invoked:
\* nothing (an empty std::function, never invoked), log a line, call
\* cancel() on the timer that invokes it, or throw
CallbackKinds == {"empty", "log", "cancel", "throw"}

TimerInit ==
    /\ callback = "empty"
    /\ nDelay = 0
    /\ nRejected = 0
    /\ fired = 0
    /\ starts = 0
    /\ timerLog = 0
    /\ callbackFailed = 0
    /\ taskFailed = 0
    /\ cancelSeen = FALSE
    /\ firedAfterCancel = FALSE
    /\ idleCancelled = FALSE
    /\ timerLast = [op |-> "none", idle |-> FALSE, rejected |-> 0]

\* the tasks in the kj::TaskSet: every chain scheduleNext added whose
\* catch_ has not returned
TaskSetSize == nDelay + nRejected

\* Running: a wrapped delay is pending
Running == nDelay > 0

\* a cancel that rejects one wrapped promise only
CancelerCancelOne(d, r) ==
    IF d > 0 THEN [nDelay |-> d - 1, nRejected |-> r + 1]
             ELSE [nDelay |-> 0, nRejected |-> r]

\* a cancel that hands a rejected task to the task set even when the
\* canceler wraps nothing
CancelerCancelAlways(d, r) == [nDelay |-> 0, nRejected |-> r + (IF d = 0 THEN 1 ELSE d)]

\* kj::Canceler::cancel(reason): every wrapped promise still pending is
\* rejected with the reason; the canceler is left empty and keeps no flag,
\* so it wraps later promises as before.  d: pending wrapped delays,
\* r: tasks already rejected.
CancelerCancel(d, r) == [nDelay |-> 0, nRejected |-> r + d]

\* a wrap that leaves two delays pending for one scheduleNext
CancelerWrapTwice(d, r) == [nDelay |-> d + 2, nRejected |-> r]

\* a canceler that remembers a cancel: a promise wrapped after the first
\* rejection is rejected at once
CancelerWrapSticky(d, r) ==
    IF r + timerLog - callbackFailed > 0 THEN [nDelay |-> d, nRejected |-> r + 1]
                        ELSE [nDelay |-> d + 1, nRejected |-> r]

\* canceler.wrap(timer.afterDelay(interval)) in scheduleNext: one more wrapped
\* delay is pending, whatever cancel() calls the canceler has seen before
CancelerWrap(d, r) == [nDelay |-> d + 1, nRejected |-> r]

\* RepeatingTimerWithCancel::start: stores interval and callback, scheduleNext
\* wraps the first delay and adds the chain to the task set
TimerStart ==
    /\ starts < MaxStarts
    /\ \E cb \in CallbackKinds : callback' = cb
    /\ starts' = starts + 1
    /\ nDelay' = CancelerWrap(nDelay, nRejected).nDelay
    /\ nRejected' = CancelerWrap(nDelay, nRejected).nRejected
    /\ cancelSeen' = FALSE
    /\ timerLast' = [op |-> "start", idle |-> ~Running, rejected |-> 0]
    /\ UNCHANGED <<fired, timerLog, callbackFailed, taskFailed, firedAfterCancel,
                   idleCancelled>>

\* RepeatingTimerWithCancel::cancel, called from outside the timer's own chain
TimerCancel ==
    /\ nDelay' = CancelerCancel(nDelay, nRejected).nDelay
    /\ nRejected' = CancelerCancel(nDelay, nRejected).nRejected
    /\ cancelSeen' = (cancelSeen \/ Running)
    /\ idleCancelled' = (idleCancelled \/ ~Running)
    /\ timerLast' = [op |-> "cancel", idle |-> ~Running, rejected |-> nDelay]
    /\ UNCHANGED <<callback, fired, starts, timerLog, callbackFailed, taskFailed,
                   firedAfterCancel>>

\* .catch_([](kj::Exception&& e) { LOG_COUT << "Timer canceled: " ... }): the
\* handler takes every exception, the rejection by cancel and the exception
\* of the callback alike, logs one "Timer canceled" line and returns, so the
\* task resolves
Catch(e) == [log |-> 1, task |-> "resolved"]

\* kj::TaskSet: errorHandler.taskFailed is called for a task that is rejected
TaskSetDone(task) == IF task = "rejected" THEN 1 ELSE 0

\* a rejected chain runs: both .then are skipped, the catch_ logs
\* "Timer canceled" and the task leaves the task set
TimerTaskCancelled ==
    /\ nRejected > 0
    /\ nRejected' = nRejected - 1
    /\ timerLog' = timerLog + Catch("cancelled").log
    /\ taskFailed' = taskFailed + TaskSetDone(Catch("cancelled").task)
    /\ timerLast' = [op |-> "catch", idle |-> ~Running, rejected |-> 0]
    /\ UNCHANGED <<callback, nDelay, fired, starts, callbackFailed, cancelSeen,
                   firedAfterCancel, idleCancelled>>

\* a wrapped delay expires and its chain runs in one turn: the callback, if
\* any, then scheduleNext.  A callback that calls cancel() reaches the
\* canceler when this chain's delay has completed: cancel rejects the other
\* pending delays only, and scheduleNext then wraps the next delay.  A
\* callback that throws skips the .then with scheduleNext and ends in the
\* catch_ of the same chain.
TimerTick ==
    /\ nDelay > 0
    /\ fired < MaxFires
    /\ fired' = IF callback = "empty" THEN fired ELSE fired + 1
    /\ firedAfterCancel' = (firedAfterCancel \/ (cancelSeen /\ callback # "empty"))
    /\ CASE callback = "cancel" ->
              LET c == CancelerCancel(nDelay - 1, nRejected)
              IN  /\ nDelay' = CancelerWrap(c.nDelay, c.nRejected).nDelay
                  /\ nRejected' = CancelerWrap(c.nDelay, c.nRejected).nRejected
                  /\ cancelSeen' = TRUE
                  /\ UNCHANGED <<timerLog, callbackFailed, taskFailed>>
         [] callback = "throw" ->
              /\ nDelay' = nDelay - 1
              /\ callbackFailed' = callbackFailed + 1
              /\ timerLog' = timerLog + Catch("callback").log
              /\ taskFailed' = taskFailed + TaskSetDone(Catch("callback").task)
              /\ UNCHANGED <<nRejected, cancelSeen>>
         [] OTHER ->
              /\ nDelay' = CancelerWrap(nDelay - 1, nRejected).nDelay
              /\ nRejected' = CancelerWrap(nDelay - 1, nRejected).nRejected
              /\ UNCHANGED <<cancelSeen, timerLog, callbackFailed, taskFailed>>
    /\ timerLast' = [op |-> "tick", idle |-> FALSE,
                      rejected |-> IF callback = "cancel" THEN nDelay - 1 ELSE 0]
    /\ UNCHANGED <<callback, starts, idleCancelled>>


\* ============================================================= timeoutSafe
\* timeoutSafe exists in two versions: the exclusiveJoin of the task with the
\* timeout (src/src/delay_example.cpp) and the guard with its own kj::Canceler
\* and done flag (src/unnamed/part_002).
Variants == {"join", "guard"}

\* what the promise handed to timeoutSafe does: a ReusableTask, a promise
\* that is rejected with an error, one that is rejected because its owner
\* cancelled it, one that never resolves, and a kj::evalLater whose function
\* spins without yielding before it returns (Task3)
OpKinds == {"task", "fail", "cancelled", "never", "busy"}

\* the totalMs values of a ReusableTask
TotalMs == {StepMs * n : n \in 0..MaxSteps}

GuardInit ==
    /\ variant = "none"
    /\ opKind = "none"
    /\ remaining = 0
    /\ opState = "none"
    /\ opDue = 0
    /\ opDoneAt = -1
    /\ deadline = 0
    /\ now = 0
    /\ doneFlag = FALSE
    /\ timeoutP = "none"
    /\ result = "none"
    /\ cancelCalls = 0
    /\ calls = 0
    /\ guardLast = "none"
    /\ attached = FALSE

\* ReusableTask::run: complete when remaining is 0, else take 100 ms off and
\* wait 100 ms
Run(rem) == IF rem = 0 THEN [done |-> TRUE, remaining |-> 0]
                       ELSE [done |-> FALSE, remaining |-> rem - StepMs]

\* how an operation that has run to its end settles
Outcome(kind) == IF kind \in {"task", "busy"} THEN "resolved" ELSE "rejected"

\* the completion branch.  guard: .then sets *doneFlag and returns true,
\* .catch_ returns false.  join: .then returns true and there is no catch_,
\* so a rejection of the task is the rejection of the branch.
GuardedTask(v, state) ==
    IF state = "resolved" THEN [doneFlag |-> v = "guard", result |-> "true"]
    ELSE IF v = "guard" THEN [doneFlag |-> FALSE, result |-> "false"]
    ELSE [doneFlag |-> FALSE, result |-> "exception"]

\* a timeout branch that only reports
TimeoutBranchNoCancel(v, done) ==
    IF v = "guard" /\ done THEN [cancel |-> FALSE, result |-> "true"]
    ELSE [cancel |-> FALSE, result |-> "false"]

\* the timeout branch.  guard: if (!*doneFlag) { canceler->cancel("timeout");
\* return false; } return true;  join: return false.
TimeoutBranch(v, done) ==
    IF v = "guard"
    THEN IF ~done THEN [cancel |-> TRUE, result |-> "false"]
                  ELSE [cancel |-> FALSE, result |-> "true"]
    ELSE [cancel |-> FALSE, result |-> "false"]

\* owners that stay locals of timeoutSafe: nothing holds them once it has
\* returned its promise
AttachNone(res) == FALSE

\* .attach(kj::mv(cancelerOwn), kj::mv(doneOwn)): the promise timeoutSafe
\* returned owns the canceler and the flag; they are held for as long as the
\* promise exists, that is until wait() has taken its result
Attach(res) == res = "pending"

\* an event is queued on the loop: the loop runs it before it looks at timers
ReadyEvent == opState \in {"resolved", "rejected", "queued"}

\* the times the timer has a delay pending for
DueTimes == (IF opState = "waiting" THEN {opDue} ELSE {})
              \cup (IF timeoutP = "pending" THEN {deadline} ELSE {})

\* main: timeoutSafe(op, timer, timeout).wait(ws), up to the wait.  The
\* operation was started by the caller: a ReusableTask has run its first run().
TimeoutSafe ==
    /\ calls < MaxCalls
    /\ result # "pending"
    /\ ~attached
    /\ \E v \in Variants, kind \in OpKinds, total \in TotalMs, t \in 1..MaxTimeout :
        /\ variant' = v
        /\ opKind' = kind
        /\ remaining' = IF kind \in {"never", "busy"} THEN 0 ELSE Run(total).remaining
        /\ opState' = CASE kind = "never" -> "waiting"
                        [] kind = "busy" -> "queued"
                        [] OTHER -> IF Run(total).done THEN Outcome(kind) ELSE "waiting"
        /\ opDue' = IF kind = "never" THEN MaxTime + 1 ELSE 1
        /\ opDoneAt' = IF kind \in {"task", "fail", "cancelled"} /\ Run(total).done
                       THEN 0 ELSE -1
        /\ deadline' = t
        /\ attached' = (v = "guard")
    /\ now' = 0
    /\ doneFlag' = FALSE
    /\ timeoutP' = "pending"
    /\ result' = "pending"
    /\ cancelCalls' = 0
    /\ calls' = calls + 1
    /\ guardLast' = "call"

\* the loop has nothing to run and sleeps until the next delay is due
GuardAdvance ==
    /\ result = "pending"
    /\ ~ReadyEvent
    /\ now < MaxTime
    /\ \A d \in DueTimes : now < d
    /\ now' = now + 1
    /\ guardLast' = "advance"
    /\ UNCHANGED <<variant, opKind, remaining, opState, opDue, opDoneAt, deadline,
                   doneFlag, timeoutP, result, cancelCalls, calls, attached>>

\* Task3: the function handed to kj::evalLater runs; the loop is not run
\* while it spins, so the clock passes b steps before it returns
GuardBusyRun ==
    /\ result = "pending"
    /\ opState = "queued"
    /\ \E b \in 1..MaxBusy : now' = now + b
    /\ opState' = "resolved"
    /\ opDoneAt' = now'
    /\ guardLast' = "busy"
    /\ UNCHANGED <<variant, opKind, remaining, opDue, deadline, doneFlag, timeoutP,
                   result, cancelCalls, calls, attached>>

\* the completion branch wins the exclusiveJoin and the timeout is dropped
GuardSettle(state) ==
    /\ doneFlag' = GuardedTask(variant, state).doneFlag
    /\ result' = GuardedTask(variant, state).result
    /\ timeoutP' = "dropped"
    /\ opState' = "consumed"

\* an operation that was ready when timeoutSafe was called, or that has just
\* run, settles the race: its event is on the queue ahead of every timer
GuardOpReady ==
    /\ result = "pending"
    /\ opState \in {"resolved", "rejected"}
    /\ GuardSettle(opState)
    /\ guardLast' = "settle"
    /\ UNCHANGED <<variant, opKind, remaining, opDue, opDoneAt, deadline, now,
                   cancelCalls, calls, attached>>

\* the 100 ms delay of the operation expires and its continuation runs:
\* another step, or the end of the operation, which settles the race
GuardOpStep ==
    /\ result = "pending"
    /\ opState = "waiting"
    /\ opDue <= now
    /\ remaining' = Run(remaining).remaining
    /\ IF Run(remaining).done
       THEN /\ GuardSettle(Outcome(opKind))
            /\ opDoneAt' = now
            /\ UNCHANGED opDue
       ELSE /\ opDue' = now + 1
            /\ UNCHANGED <<opState, opDoneAt, doneFlag, timeoutP, result>>
    /\ guardLast' = "step"
    /\ UNCHANGED <<variant, opKind, deadline, now, cancelCalls, calls, attached>>

\* the timeout delay expires: the timeout branch wins the exclusiveJoin, the
\* operation is cancelled and never continues
GuardTimeout ==
    /\ result = "pending"
    /\ timeoutP = "pending"
    /\ ~ReadyEvent
    /\ deadline <= now
    /\ result' = TimeoutBranch(variant, doneFlag).result
    /\ cancelCalls' = cancelCalls + (IF TimeoutBranch(variant, doneFlag).cancel THEN 1 ELSE 0)
    /\ opState' = "dropped"
    /\ timeoutP' = "fired"
    /\ guardLast' = "timeout"
    /\ UNCHANGED <<variant, opKind, remaining, opDue, opDoneAt, deadline, now,
                   doneFlag, calls, attached>>

\* main: .wait(ws) has returned the result and the promise timeoutSafe
\* returned is destroyed: the exclusiveJoin with what is left of its branches
\* first, then what was attached to it, cancelerOwn and doneOwn
GuardRelease ==
    /\ attached
    /\ ~Attach(result)
    /\ attached' = FALSE
    /\ guardLast' = "release"
    /\ UNCHANGED <<variant, opKind, remaining, opState, opDue, opDoneAt, deadline, now,
                   doneFlag, timeoutP, result, cancelCalls, calls>>


\* ======================================================== executer_example
\* the functions of executer_example: the two handed to the executor, the one
\* the first hands to kj::evalLater, and the task main adds to the task set
ExecFns == {"syncFn", "syncEvalLater", "asyncFn", "task"}

ExecInit ==
    /\ mainPc = "spawn"
    /\ workerPc = "none"
    /\ xthread = <<>>
    /\ loopQueue = <<>>
    /\ ranOn = [f \in ExecFns |-> "none"]
    /\ submittedBy = [f \in ExecFns |-> "none"]
    /\ taskSetAdds = <<>>
    /\ taskSetTasks = 0
    /\ exeDone = FALSE
    /\ execLog = <<>>
    /\ printed = 0

\* an executor that runs the function in place, on the thread that calls it
ExecutorThreadOfCaller(caller) == caller

\* kj::getCurrentThreadExecutor() was called by main (line 24): the executor
\* runs what it is handed on the thread of main's event loop, whoever calls
ExecutorThread(caller) == "main"

\* main is inside a wait(ws): its event loop runs
LoopRuns == mainPc \in {"waitExe", "waitDelay", "onEmpty"}

\* main: std::thread worker(...)
MainSpawn ==
    /\ mainPc = "spawn"
    /\ mainPc' = "executeAsync"
    /\ workerPc' = "started"
    /\ UNCHANGED <<xthread, loopQueue, ranOn, submittedBy, taskSetAdds, taskSetTasks,
                   exeDone, execLog, printed>>

\* worker: executor.executeSync(...): the request goes to the executor and
\* the worker blocks until the returned promise has resolved
WorkerExecuteSync ==
    /\ workerPc = "started"
    /\ workerPc' = "blocked"
    /\ xthread' = Append(xthread, "syncFn")
    /\ submittedBy' = [submittedBy EXCEPT !["syncFn"] = "worker"]
    /\ UNCHANGED <<mainPc, loopQueue, ranOn, taskSetAdds, taskSetTasks, exeDone,
                   execLog, printed>>

\* worker: executeSync has returned and the thread function ends
WorkerExit ==
    /\ workerPc = "woken"
    /\ workerPc' = "exit"
    /\ UNCHANGED <<mainPc, xthread, loopQueue, ranOn, submittedBy, taskSetAdds,
                   taskSetTasks, exeDone, execLog, printed, printed>>

\* main: executor.executeAsync(...), then exe.wait(ws)
MainExecuteAsync ==
    /\ mainPc = "executeAsync"
    /\ mainPc' = "waitExe"
    /\ xthread' = Append(xthread, "asyncFn")
    /\ submittedBy' = [submittedBy EXCEPT !["asyncFn"] = "main"]
    /\ UNCHANGED <<workerPc, loopQueue, ranOn, taskSetAdds, taskSetTasks, exeDone,
                   execLog, printed>>

\* the loop takes the oldest request of the executor and runs its function:
\* syncFn returns kj::evalLater(...), asyncFn logs and returns READY_NOW
LoopRunRequest ==
    /\ LoopRuns
    /\ xthread # <<>>
    /\ LET f == Head(xthread)
           t == ExecutorThread(submittedBy[f])
       IN  /\ ranOn' = [ranOn EXCEPT ![f] = t]
           /\ loopQueue' = Append(loopQueue,
                                  IF f = "syncFn" THEN "syncEvalLater" ELSE "asyncDone")
           /\ submittedBy' = IF f = "syncFn"
                             THEN [submittedBy EXCEPT !["syncEvalLater"] = t]
                             ELSE submittedBy
           /\ execLog' = IF f = "asyncFn"
                         THEN Append(execLog, [line |-> "executeAsync", tid |-> t])
                         ELSE execLog
    /\ xthread' = Tail(xthread)
    /\ UNCHANGED <<mainPc, workerPc, taskSetAdds, taskSetTasks, exeDone, printed>>

\* the loop runs the oldest queued event: the function of an evalLater, or
\* the completion of a request, which resolves the promise its caller waits
\* for
LoopRunEvent ==
    /\ LoopRuns
    /\ loopQueue # <<>>
    /\ LET e == Head(loopQueue)
       IN  /\ ranOn' = IF e \in ExecFns THEN [ranOn EXCEPT ![e] = submittedBy[e]]
                       ELSE ranOn
           /\ loopQueue' = IF e = "syncEvalLater" THEN Append(Tail(loopQueue), "syncDone")
                           ELSE Tail(loopQueue)
           /\ workerPc' = IF e = "syncDone" THEN "woken" ELSE workerPc
           /\ exeDone' = (exeDone \/ e = "asyncDone")
           /\ taskSetTasks' = IF e = "task" THEN taskSetTasks - 1 ELSE taskSetTasks
           /\ execLog' = CASE e = "syncEvalLater" ->
                                Append(execLog, [line |-> "evalLater", tid |-> submittedBy[e]])
                           [] e = "task" ->
                                Append(execLog, [line |-> "task", tid |-> submittedBy[e]])
                           [] OTHER -> execLog
    /\ UNCHANGED <<mainPc, xthread, submittedBy, taskSetAdds, printed>>

\* main: exe.wait(ws) returns
MainWaitExeDone ==
    /\ mainPc = "waitExe"
    /\ exeDone
    /\ mainPc' = "add"
    /\ UNCHANGED <<workerPc, xthread, loopQueue, ranOn, submittedBy, taskSetAdds,
                   taskSetTasks, exeDone, execLog, printed, printed>>

\* main: taskSet.add(kj::evalLater(...)), then the wait for the 300 ms delay
MainTaskSetAdd ==
    /\ mainPc = "add"
    /\ mainPc' = "waitDelay"
    /\ taskSetAdds' = Append(taskSetAdds, "main")
    /\ taskSetTasks' = taskSetTasks + 1
    /\ loopQueue' = Append(loopQueue, "task")
    /\ submittedBy' = [submittedBy EXCEPT !["task"] = "main"]
    /\ UNCHANGED <<workerPc, xthread, ranOn, exeDone, execLog, printed>>

\* the 300 ms delay expires when the loop has run what was queued, and main
\* logs "[Main] Done. Exiting..."
MainDelayDone ==
    /\ mainPc = "waitDelay"
    /\ loopQueue = <<>>
    /\ mainPc' = "join"
    /\ execLog' = Append(execLog, [line |-> "Done", tid |-> "main"])
    /\ UNCHANGED <<workerPc, xthread, loopQueue, ranOn, submittedBy, taskSetAdds,
                   taskSetTasks, exeDone, printed>>

\* main: worker.join() returns when the worker thread has ended
MainJoin ==
    /\ mainPc = "join"
    /\ workerPc = "exit"
    /\ mainPc' = "onEmpty"
    /\ workerPc' = "joined"
    /\ UNCHANGED <<xthread, loopQueue, ranOn, submittedBy, taskSetAdds, taskSetTasks,
                   exeDone, execLog, printed>>

\* main: taskSet.onEmpty().wait(ws) returns, main returns
MainOnEmpty ==
    /\ mainPc = "onEmpty"
    /\ taskSetTasks = 0
    /\ mainPc' = "return"
    /\ UNCHANGED <<workerPc, xthread, loopQueue, ranOn, submittedBy, taskSetAdds,
                   taskSetTasks, exeDone, execLog, printed, printed>>


\* the log thread (AsyncLogQueue::worker) wakes, and under the queue's mutex
\* writes every line that is queued to std::cout
LoggerPrint ==
    /\ printed < Len(execLog)
    /\ printed' = Len(execLog)
    /\ UNCHANGED <<mainPc, workerPc, xthread, loopQueue, ranOn, submittedBy,
                   taskSetAdds, taskSetTasks, exeDone, execLog>>

\* ================================================ notifier_client_example
\* the client processes connected to the server
Clients == 1..MaxClients

ClientInit ==
    /\ clientPc = [c \in Clients |-> "start"]
    /\ session = [c \in Clients |-> 0]
    /\ cancelTimer = [c \in Clients |-> "none"]
    /\ notesAfterCancel = [c \in Clients |-> 0]

\* main: notifier.subscribeRequest() ... send().wait(ws), handled by
\* NotifierImpl::subscribe; then the 5 s timer whose continuation sends the
\* cancel is added to the task set
ClientSubscribe(c) ==
    /\ clientPc[c] = "start"
    /\ PullSubscribe
    /\ session' = [session EXCEPT ![c] = pullLast'.k]
    /\ clientPc' = [clientPc EXCEPT ![c] = "loop"]
    /\ cancelTimer' = [cancelTimer EXCEPT ![c] = "pending"]
    /\ UNCHANGED notesAfterCancel

\* main, while (true): stream.readRequest().send(), handled by
\* StreamImpl::read.  "stream closed" comes back as a kj::Exception from
\* wait(ws), which leaves the loop for the catch of main
ClientRead(c) ==
    /\ clientPc[c] = "loop"
    /\ PullRead
    /\ pullLast'.k = session[c]
    /\ clientPc' = [clientPc EXCEPT ![c] = IF pullLast'.outcome = "stream closed"
                                            THEN "ended" ELSE "reading"]
    /\ UNCHANGED <<session, cancelTimer, notesAfterCancel>>

\* the server: the delay of the read of c expires and the response is sent
ClientReadAnswered(c) ==
    /\ clientPc[c] = "reading"
    /\ PullReadComplete
    /\ pullLast'.k = session[c]
    /\ clientPc' = [clientPc EXCEPT ![c] = "answered"]
    /\ UNCHANGED <<session, cancelTimer, notesAfterCancel>>

\* main: wait(ws) returns the response, printNotification, next iteration
ClientNotified(c) ==
    /\ clientPc[c] = "answered"
    /\ clientPc' = [clientPc EXCEPT ![c] = "loop"]
    /\ notesAfterCancel' = [notesAfterCancel EXCEPT
                               ![c] = @ + (IF cancelTimer[c] = "processed" THEN 1 ELSE 0)]
    /\ UNCHANGED <<pullVars, session, cancelTimer>>

\* the 5 s timer of c expires while main waits for a read:
\* session.cancelRequest().send(), handled by SubscriptionImpl::cancel
ClientCancel(c) ==
    /\ clientPc[c] \in {"reading", "answered"}
    /\ cancelTimer[c] = "pending"
    /\ PullCancel
    /\ pullLast'.k = session[c]
    /\ cancelTimer' = [cancelTimer EXCEPT ![c] = "processed"]
    /\ UNCHANGED <<clientPc, session, notesAfterCancel>>

\* the server's main: notifierRaw->setTimer(timer), before it serves
ClientServerSetTimer ==
    /\ PullSetTimer
    /\ UNCHANGED clientVars


\* =========================================================== ReusableTask
\* a uint32_t is kept as two 16-bit halves, value = hi * Word + lo
U32(n) == [hi |-> n \div Word, lo |-> n % Word]

\* a - b in uint32_t arithmetic (modulo 2^32), for 0 <= b <= Word
Sub32(a, b) ==
    IF a.lo >= b THEN [hi |-> a.hi, lo |-> a.lo - b]
                 ELSE [hi |-> (a.hi + Word - 1) % Word, lo |-> a.lo + Word - b]

TaskInit ==
    /\ taskTotal = 0
    /\ taskRemaining = U32(0)
    /\ taskState = "none"
    /\ taskSteps = 0

\* ReusableTask::run on the uint32_t remaining: complete when it is 0, else
\* remaining -= 100 and wait 100 ms
Run32(rem) == IF rem = U32(0) THEN [done |-> TRUE, remaining |-> rem]
                              ELSE [done |-> FALSE, remaining |-> Sub32(rem, StepMs)]

\* ReusableTask task(timer, totalMs); task.start(): the first run()
TaskStart ==
    /\ taskState = "none"
    /\ \E total \in 0..MaxTotalMs :
        /\ taskTotal' = total
        /\ taskRemaining' = Run32(U32(total)).remaining
        /\ taskState' = IF Run32(U32(total)).done THEN "complete" ELSE "waiting"
    /\ UNCHANGED taskSteps

\* the 100 ms delay expires: .then([this] { return run(); })
TaskDelayDone ==
    /\ taskState = "waiting"
    /\ taskSteps < MaxTaskSteps
    /\ taskSteps' = taskSteps + 1
    /\ taskRemaining' = Run32(taskRemaining).remaining
    /\ taskState' = IF Run32(taskRemaining).done THEN "complete" ELSE "waiting"
    /\ UNCHANGED taskTotal


\* ========================================================= polling_client
PollInit ==
    /\ pollMain = "start"
    /\ is_start_ = FALSE
    /\ pollCancel = "none"
    /\ pollChain = 0
    /\ pollReader = -1
    /\ pollNotes = 0
    /\ pollPrints = 0

\* the tasks in task_set of the client
PollTaskSetSize == pollChain + (IF pollCancel = "pending" THEN 1 ELSE 0)

\* recursivePrint(reader): logs, and adds to taskSet a 100 ms delay whose
\* continuation calls recursivePrint again
RecursivePrint(chain, prints) ==
    [chain |-> chain + 1, prints |-> (prints + 1) % MaxPrints]

\* main: the subscribe request, then task_set.add of the 10 s timer whose
\* continuation sends the cancel, then task_set.onEmpty().wait(ws)
PollSubscribe ==
    /\ pollMain = "start"
    /\ pollMain' = "onEmpty"
    /\ pollCancel' = "pending"
    /\ UNCHANGED <<is_start_, pollChain, pollReader, pollNotes, pollPrints>>

\* NotificationReceiverImpl::onNotification, called by a tick of the server
\* until the cancel has been sent: the first call starts recursivePrint
PollOnNotification ==
    /\ pollMain = "onEmpty"
    /\ pollCancel = "pending"
    /\ pollNotes < MaxNotes
    /\ pollNotes' = pollNotes + 1
    /\ \E id \in 0..MaxFirstId :
        IF ~is_start_
        THEN /\ is_start_' = TRUE
             /\ pollReader' = id
             /\ pollChain' = RecursivePrint(pollChain, pollPrints).chain
             /\ pollPrints' = RecursivePrint(pollChain, pollPrints).prints
        ELSE UNCHANGED <<is_start_, pollReader, pollChain, pollPrints>>
    /\ UNCHANGED <<pollMain, pollCancel>>

\* the 100 ms delay of a recursivePrint task expires: its continuation calls
\* recursivePrint, which adds the next task, and the task leaves the task set
PollPrintAgain ==
    /\ pollMain = "onEmpty"
    /\ pollChain > 0
    /\ pollChain' = RecursivePrint(pollChain, pollPrints).chain - 1
    /\ pollPrints' = RecursivePrint(pollChain, pollPrints).prints
    /\ UNCHANGED <<pollMain, is_start_, pollCancel, pollReader, pollNotes>>

\* the 10 s timer expires: subscription.cancelRequest().send(), and the
\* timer task leaves the task set
PollCancelSent ==
    /\ pollMain = "onEmpty"
    /\ pollCancel = "pending"
    /\ pollCancel' = "sent"
    /\ UNCHANGED <<pollMain, is_start_, pollChain, pollReader, pollNotes, pollPrints>>

\* task_set.onEmpty() resolves when the task set has become empty, and main
\* returns
PollOnEmpty ==
    /\ pollMain = "onEmpty"
    /\ PollTaskSetSize = 0
    /\ pollMain' = "returned"
    /\ UNCHANGED <<is_start_, pollCancel, pollChain, pollReader, pollNotes, pollPrints>>


\* ========================================================== AsyncLogQueue
\* the threads that log through LOG_COUT
LogThreads == 1..MaxLogThreads

LogInit ==
    /\ log_queue_ = <<>>
    /\ queue_mutex_ = "free"
    /\ stop_flag_ = FALSE
    /\ initialized_ = FALSE
    /\ init_flag = FALSE
    /\ workerThreads = 0
    /\ logWorkerPc = "none"
    /\ cvWoken = FALSE
    /\ loggerPc = [t \in LogThreads |-> "idle"]
    /\ logSent = [t \in LogThreads |-> 0]
    /\ logEnqueued = <<>>
    /\ logPrinted = <<>>
    /\ stopPc = "idle"

\* a flag that is stored without looking at its old value
ExchangeBlind(old) == [old |-> FALSE, new |-> TRUE]

\* initialized_.exchange(true): the old value, and the value stored
Exchange(old) == [old |-> old, new |-> TRUE]

\* AsyncLogQueue::start: the thread that finds initialized_ false creates
\* the worker thread
LogStartBody ==
    /\ initialized_' = Exchange(initialized_).new
    /\ IF ~Exchange(initialized_).old
       THEN /\ workerThreads' = workerThreads + 1
            /\ logWorkerPc' = "lock"
       ELSE UNCHANGED <<workerThreads, logWorkerPc>>

\* a thread calls AsyncLogQueue::start() itself
LogStart ==
    /\ workerThreads < MaxLogThreads
    /\ \E t \in LogThreads : loggerPc[t] = "idle"
    /\ LogStartBody
    /\ UNCHANGED <<log_queue_, queue_mutex_, stop_flag_, init_flag, cvWoken, loggerPc,
                   logSent, logEnqueued, logPrinted, stopPc>>

\* ~LogStream, first statement: ensureInitialized(), std::call_once on
\* init_flag runs start() in the first thread that arrives
LogEnsureInitialized(t) ==
    /\ loggerPc[t] = "idle"
    /\ logSent[t] < MaxLogMsgs
    /\ loggerPc' = [loggerPc EXCEPT ![t] = "push"]
    /\ init_flag' = TRUE
    /\ IF ~init_flag THEN LogStartBody
                     ELSE UNCHANGED <<initialized_, workerThreads, logWorkerPc>>
    /\ UNCHANGED <<log_queue_, queue_mutex_, stop_flag_, cvWoken, logSent, logEnqueued,
                   logPrinted, stopPc>>

\* ~LogStream, the rest: with queue_mutex_ locked, log_queue_.push and
\* cv_.notify_one
LogPush(t) ==
    /\ loggerPc[t] = "push"
    /\ queue_mutex_ = "free"
    /\ log_queue_' = Append(log_queue_, <<t, logSent[t] + 1>>)
    /\ logEnqueued' = Append(logEnqueued, <<t, logSent[t] + 1>>)
    /\ logSent' = [logSent EXCEPT ![t] = @ + 1]
    /\ cvWoken' = (cvWoken \/ logWorkerPc = "waiting")
    /\ loggerPc' = [loggerPc EXCEPT ![t] = "idle"]
    /\ UNCHANGED <<queue_mutex_, stop_flag_, initialized_, init_flag, workerThreads,
                   logWorkerPc, logPrinted, stopPc>>

\* worker: std::unique_lock<std::mutex> lock(queue_mutex_)
LogWorkerLock ==
    /\ logWorkerPc = "lock"
    /\ queue_mutex_ = "free"
    /\ queue_mutex_' = "worker"
    /\ logWorkerPc' = "check"
    /\ UNCHANGED <<log_queue_, stop_flag_, initialized_, init_flag, workerThreads, cvWoken,
                   loggerPc, logSent, logEnqueued, logPrinted, stopPc>>

\* worker, cv_.wait(lock, pred): pred is evaluated with the mutex held; when
\* it is false the worker goes on to cv_.wait(lock)
LogWorkerCheck ==
    /\ logWorkerPc = "check"
    /\ logWorkerPc' = IF log_queue_ # <<>> \/ stop_flag_ THEN "drain" ELSE "prewait"
    /\ UNCHANGED <<log_queue_, queue_mutex_, stop_flag_, initialized_, init_flag,
                   workerThreads, cvWoken, loggerPc, logSent, logEnqueued, logPrinted,
                   stopPc>>

\* worker, cv_.wait(lock): releases the mutex and blocks; only a notify that
\* comes after this step wakes it
LogWorkerWait ==
    /\ logWorkerPc = "prewait"
    /\ logWorkerPc' = "waiting"
    /\ queue_mutex_' = "free"
    /\ cvWoken' = FALSE
    /\ UNCHANGED <<log_queue_, stop_flag_, initialized_, init_flag, workerThreads,
                   loggerPc, logSent, logEnqueued, logPrinted, stopPc>>

\* worker: notified, it takes the mutex again and evaluates pred again
LogWorkerWake ==
    /\ logWorkerPc = "waiting"
    /\ cvWoken
    /\ queue_mutex_ = "free"
    /\ queue_mutex_' = "worker"
    /\ cvWoken' = FALSE
    /\ logWorkerPc' = "check"
    /\ UNCHANGED <<log_queue_, stop_flag_, initialized_, init_flag, workerThreads,
                   loggerPc, logSent, logEnqueued, logPrinted, stopPc>>

\* worker: a wait may return although nobody notified (spurious wakeup)
LogWorkerSpuriousWake ==
    /\ logWorkerPc = "waiting"
    /\ ~cvWoken
    /\ queue_mutex_ = "free"
    /\ queue_mutex_' = "worker"
    /\ logWorkerPc' = "check"
    /\ UNCHANGED <<log_queue_, stop_flag_, initialized_, init_flag, workerThreads, cvWoken,
                   loggerPc, logSent, logEnqueued, logPrinted, stopPc>>

\* worker, while (!log_queue_.empty()): print the front and pop it
LogWorkerPrint ==
    /\ logWorkerPc = "drain"
    /\ log_queue_ # <<>>
    /\ logPrinted' = Append(logPrinted, Head(log_queue_))
    /\ log_queue_' = Tail(log_queue_)
    /\ UNCHANGED <<queue_mutex_, stop_flag_, initialized_, init_flag, workerThreads,
                   logWorkerPc, cvWoken, loggerPc, logSent, logEnqueued, stopPc>>

\* worker, if (stop_flag_ && log_queue_.empty()) break; the lock is released
\* at the end of the iteration or of the function
LogWorkerStopCheck ==
    /\ logWorkerPc = "drain"
    /\ log_queue_ = <<>>
    /\ logWorkerPc' = IF stop_flag_ THEN "exited" ELSE "lock"
    /\ queue_mutex_' = "free"
    /\ UNCHANGED <<log_queue_, stop_flag_, initialized_, init_flag, workerThreads, cvWoken,
                   loggerPc, logSent, logEnqueued, logPrinted, stopPc>>

\* stop(): if (initialized_) stop_flag_ = true;  the mutex is not taken
LogStopSetFlag ==
    /\ stopPc = "idle"
    /\ stopPc' = IF initialized_ THEN "notify" ELSE "done"
    /\ stop_flag_' = (stop_flag_ \/ initialized_)
    /\ UNCHANGED <<log_queue_, queue_mutex_, initialized_, init_flag, workerThreads,
                   logWorkerPc, cvWoken, loggerPc, logSent, logEnqueued, logPrinted>>

\* stop(): cv_.notify_all() wakes the worker if it is blocked in cv_.wait
LogStopNotify ==
    /\ stopPc = "notify"
    /\ stopPc' = "join"
    /\ cvWoken' = (cvWoken \/ logWorkerPc = "waiting")
    /\ UNCHANGED <<log_queue_, queue_mutex_, stop_flag_, initialized_, init_flag,
                   workerThreads, logWorkerPc, loggerPc, logSent, logEnqueued, logPrinted>>

\* stop(): worker_thread_.join() returns when the worker has left worker()
LogStopJoin ==
    /\ stopPc = "join"
    /\ logWorkerPc = "exited"
    /\ stopPc' = "done"
    /\ UNCHANGED <<log_queue_, queue_mutex_, stop_flag_, initialized_, init_flag,
                   workerThreads, logWorkerPc, cvWoken, loggerPc, logSent, logEnqueued,
                   logPrinted>>


\* ========================================================= specifications
Init == PullInit /\ PushInit /\ TimerInit /\ GuardInit /\ ExecInit /\ ClientInit
        /\ TaskInit /\ PollInit /\ LogInit

PullStep ==
    \/ PullSetTimer /\ UNCHANGED <<pushVars, timerVars, guardVars, execVars, clientVars, taskVars, pollVars, logVars>>
    \/ PullSubscribe /\ UNCHANGED <<pushVars, timerVars, guardVars, execVars, clientVars, taskVars, pollVars, logVars>>
    \/ PullSubscribeNoTimer /\ UNCHANGED <<pushVars, timerVars, guardVars, execVars, clientVars, taskVars, pollVars, logVars>>
    \/ PullCancel /\ UNCHANGED <<pushVars, timerVars, guardVars, execVars, clientVars, taskVars, pollVars, logVars>>
    \/ PullRead /\ UNCHANGED <<pushVars, timerVars, guardVars, execVars, clientVars, taskVars, pollVars, logVars>>
    \/ PullReadComplete /\ UNCHANGED <<pushVars, timerVars, guardVars, execVars, clientVars, taskVars, pollVars, logVars>>

PushStep ==
    \/ PushSetTaskSet /\ UNCHANGED <<pullVars, timerVars, guardVars, execVars, clientVars, taskVars, pollVars, logVars>>
    \/ PushSetTimer /\ UNCHANGED <<pullVars, timerVars, guardVars, execVars, clientVars, taskVars, pollVars, logVars>>
    \/ PushSubscribe /\ UNCHANGED <<pullVars, timerVars, guardVars, execVars, clientVars, taskVars, pollVars, logVars>>
    \/ PushCancel /\ UNCHANGED <<pullVars, timerVars, guardVars, execVars, clientVars, taskVars, pollVars, logVars>>
    \/ PushDropHandle /\ UNCHANGED <<pullVars, timerVars, guardVars, execVars, clientVars, taskVars, pollVars, logVars>>
    \/ PushSettle /\ UNCHANGED <<pullVars, timerVars, guardVars, execVars, clientVars, taskVars, pollVars, logVars>>
    \/ PushJoinDone /\ UNCHANGED <<pullVars, timerVars, guardVars, execVars, clientVars, taskVars, pollVars, logVars>>
    \/ PushTick /\ UNCHANGED <<pullVars, timerVars, guardVars, execVars, clientVars, taskVars, pollVars, logVars>>

TimerStep ==
    \/ TimerStart /\ UNCHANGED <<pullVars, pushVars, guardVars, execVars, clientVars, taskVars, pollVars, logVars>>
    \/ TimerCancel /\ UNCHANGED <<pullVars, pushVars, guardVars, execVars, clientVars, taskVars, pollVars, logVars>>
    \/ TimerTaskCancelled /\ UNCHANGED <<pullVars, pushVars, guardVars, execVars, clientVars, taskVars, pollVars, logVars>>
    \/ TimerTick /\ UNCHANGED <<pullVars, pushVars, guardVars, execVars, clientVars, taskVars, pollVars, logVars>>

GuardStep ==
    \/ TimeoutSafe /\ UNCHANGED <<pullVars, pushVars, timerVars, execVars, clientVars, taskVars, pollVars, logVars>>
    \/ GuardAdvance /\ UNCHANGED <<pullVars, pushVars, timerVars, execVars, clientVars, taskVars, pollVars, logVars>>
    \/ GuardBusyRun /\ UNCHANGED <<pullVars, pushVars, timerVars, execVars, clientVars, taskVars, pollVars, logVars>>
    \/ GuardOpReady /\ UNCHANGED <<pullVars, pushVars, timerVars, execVars, clientVars, taskVars, pollVars, logVars>>
    \/ GuardOpStep /\ UNCHANGED <<pullVars, pushVars, timerVars, execVars, clientVars, taskVars, pollVars, logVars>>
    \/ GuardTimeout /\ UNCHANGED <<pullVars, pushVars, timerVars, execVars, clientVars, taskVars, pollVars, logVars>>
    \/ GuardRelease /\ UNCHANGED <<pullVars, pushVars, timerVars, execVars, clientVars, taskVars, pollVars, logVars>>

ExecStep ==
    \/ MainSpawn /\ UNCHANGED <<pullVars, pushVars, timerVars, guardVars, clientVars, taskVars, pollVars, logVars>>
    \/ WorkerExecuteSync /\ UNCHANGED <<pullVars, pushVars, timerVars, guardVars, clientVars, taskVars, pollVars, logVars>>
    \/ MainExecuteAsync /\ UNCHANGED <<pullVars, pushVars, timerVars, guardVars, clientVars, taskVars, pollVars, logVars>>
    \/ LoopRunRequest /\ UNCHANGED <<pullVars, pushVars, timerVars, guardVars, clientVars, taskVars, pollVars, logVars>>
    \/ LoopRunEvent /\ UNCHANGED <<pullVars, pushVars, timerVars, guardVars, clientVars, taskVars, pollVars, logVars>>
    \/ WorkerExit /\ UNCHANGED <<pullVars, pushVars, timerVars, guardVars, clientVars, taskVars, pollVars, logVars>>
    \/ MainWaitExeDone /\ UNCHANGED <<pullVars, pushVars, timerVars, guardVars, clientVars, taskVars, pollVars, logVars>>
    \/ MainTaskSetAdd /\ UNCHANGED <<pullVars, pushVars, timerVars, guardVars, clientVars, taskVars, pollVars, logVars>>
    \/ MainDelayDone /\ UNCHANGED <<pullVars, pushVars, timerVars, guardVars, clientVars, taskVars, pollVars, logVars>>
    \/ MainJoin /\ UNCHANGED <<pullVars, pushVars, timerVars, guardVars, clientVars, taskVars, pollVars, logVars>>
    \/ MainOnEmpty /\ UNCHANGED <<pullVars, pushVars, timerVars, guardVars, clientVars, taskVars, pollVars, logVars>>
    \/ LoggerPrint /\ UNCHANGED <<pullVars, pushVars, timerVars, guardVars, clientVars, taskVars, pollVars, logVars>>

ClientStep ==
    \/ ClientServerSetTimer /\ UNCHANGED <<pushVars, timerVars, guardVars, execVars, taskVars, pollVars, logVars>>
    \/ \E c \in Clients : ClientSubscribe(c) /\ UNCHANGED <<pushVars, timerVars, guardVars, execVars, taskVars, pollVars, logVars>>
    \/ \E c \in Clients : ClientRead(c) /\ UNCHANGED <<pushVars, timerVars, guardVars, execVars, taskVars, pollVars, logVars>>
    \/ \E c \in Clients : ClientReadAnswered(c) /\ UNCHANGED <<pushVars, timerVars, guardVars, execVars, taskVars, pollVars, logVars>>
    \/ \E c \in Clients : ClientNotified(c) /\ UNCHANGED <<pushVars, timerVars, guardVars, execVars, taskVars, pollVars, logVars>>
    \/ \E c \in Clients : ClientCancel(c) /\ UNCHANGED <<pushVars, timerVars, guardVars, execVars, taskVars, pollVars, logVars>>

TaskStep ==
    \/ TaskStart /\ UNCHANGED <<pullVars, pushVars, timerVars, guardVars, execVars, clientVars, pollVars, logVars>>
    \/ TaskDelayDone /\ UNCHANGED <<pullVars, pushVars, timerVars, guardVars, execVars, clientVars, pollVars, logVars>>

PollStep ==
    \/ PollSubscribe /\ UNCHANGED <<pullVars, pushVars, timerVars, guardVars, execVars, clientVars, taskVars, logVars>>
    \/ PollOnNotification /\ UNCHANGED <<pullVars, pushVars, timerVars, guardVars, execVars, clientVars, taskVars, logVars>>
    \/ PollPrintAgain /\ UNCHANGED <<pullVars, pushVars, timerVars, guardVars, execVars, clientVars, taskVars, logVars>>
    \/ PollCancelSent /\ UNCHANGED <<pullVars, pushVars, timerVars, guardVars, execVars, clientVars, taskVars, logVars>>
    \/ PollOnEmpty /\ UNCHANGED <<pullVars, pushVars, timerVars, guardVars, execVars, clientVars, taskVars, logVars>>

LogStep ==
    \/ LogStart /\ UNCHANGED <<pullVars, pushVars, timerVars, guardVars, execVars, clientVars, taskVars, pollVars>>
    \/ \E t \in LogThreads : LogEnsureInitialized(t) /\ UNCHANGED <<pullVars, pushVars, timerVars, guardVars, execVars, clientVars, taskVars, pollVars>>
    \/ \E t \in LogThreads : LogPush(t) /\ UNCHANGED <<pullVars, pushVars, timerVars, guardVars, execVars, clientVars, taskVars, pollVars>>
    \/ LogWorkerLock /\ UNCHANGED <<pullVars, pushVars, timerVars, guardVars, execVars, clientVars, taskVars, pollVars>>
    \/ LogWorkerCheck /\ UNCHANGED <<pullVars, pushVars, timerVars, guardVars, execVars, clientVars, taskVars, pollVars>>
    \/ LogWorkerWait /\ UNCHANGED <<pullVars, pushVars, timerVars, guardVars, execVars, clientVars, taskVars, pollVars>>
    \/ LogWorkerWake /\ UNCHANGED <<pullVars, pushVars, timerVars, guardVars, execVars, clientVars, taskVars, pollVars>>
    \/ LogWorkerSpuriousWake /\ UNCHANGED <<pullVars, pushVars, timerVars, guardVars, execVars, clientVars, taskVars, pollVars>>
    \/ LogWorkerPrint /\ UNCHANGED <<pullVars, pushVars, timerVars, guardVars, execVars, clientVars, taskVars, pollVars>>
    \/ LogWorkerStopCheck /\ UNCHANGED <<pullVars, pushVars, timerVars, guardVars, execVars, clientVars, taskVars, pollVars>>
    \/ LogStopSetFlag /\ UNCHANGED <<pullVars, pushVars, timerVars, guardVars, execVars, clientVars, taskVars, pollVars>>
    \/ LogStopNotify /\ UNCHANGED <<pullVars, pushVars, timerVars, guardVars, execVars, clientVars, taskVars, pollVars>>
    \/ LogStopJoin /\ UNCHANGED <<pullVars, pushVars, timerVars, guardVars, execVars, clientVars, taskVars, pollVars>>

SpecPull == Init /\ [][PullStep]_vars
SpecPush == Init /\ [][PushStep]_vars
SpecTimer == Init /\ [][TimerStep]_vars
SpecGuard == Init /\ [][GuardStep]_vars
SpecExec == Init /\ [][ExecStep]_vars
SpecClient == Init /\ [][ClientStep]_vars
SpecTask == Init /\ [][TaskStep]_vars
SpecPoll == Init /\ [][PollStep]_vars
SpecLog == Init /\ [][LogStep]_vars

\* the operating system schedules every thread that can run: the worker, a
\* thread inside ~LogStream and the thread inside stop() go on; nothing
\* obliges a thread to log, and nothing obliges a wait to return unnotified
SpecLogFair ==
    /\ SpecLog
    /\ WF_vars((\E t \in LogThreads : LogPush(t)) /\ UNCHANGED <<pullVars, pushVars, timerVars, guardVars, execVars, clientVars, taskVars, pollVars>>)
    /\ WF_vars(LogWorkerLock /\ UNCHANGED <<pullVars, pushVars, timerVars, guardVars, execVars, clientVars, taskVars, pollVars>>)
    /\ WF_vars(LogWorkerCheck /\ UNCHANGED <<pullVars, pushVars, timerVars, guardVars, execVars, clientVars, taskVars, pollVars>>)
    /\ WF_vars(LogWorkerWait /\ UNCHANGED <<pullVars, pushVars, timerVars, guardVars, execVars, clientVars, taskVars, pollVars>>)
    /\ WF_vars(LogWorkerWake /\ UNCHANGED <<pullVars, pushVars, timerVars, guardVars, execVars, clientVars, taskVars, pollVars>>)
    /\ WF_vars(LogWorkerPrint /\ UNCHANGED <<pullVars, pushVars, timerVars, guardVars, execVars, clientVars, taskVars, pollVars>>)
    /\ WF_vars(LogWorkerStopCheck /\ UNCHANGED <<pullVars, pushVars, timerVars, guardVars, execVars, clientVars, taskVars, pollVars>>)
    /\ WF_vars(LogStopSetFlag /\ UNCHANGED <<pullVars, pushVars, timerVars, guardVars, execVars, clientVars, taskVars, pollVars>>)
    /\ WF_vars(LogStopNotify /\ UNCHANGED <<pullVars, pushVars, timerVars, guardVars, execVars, clientVars, taskVars, pollVars>>)
    /\ WF_vars(LogStopJoin /\ UNCHANGED <<pullVars, pushVars, timerVars, guardVars, execVars, clientVars, taskVars, pollVars>>)

\* the components side by side; the claims are checked under the
\* specification of the component they are about
Next == PullStep \/ PushStep \/ TimerStep \/ GuardStep \/ ExecStep \/ ClientStep \/ TaskStep
          \/ PollStep \/ LogStep
Spec == Init /\ [][Next]_vars

\* ================================================================= claims

\* C1: pull mode: a read() that starts after cancel() of the matching
\* subscription has been processed fails with "stream closed".
C1_ReadAfterCancelClosed ==
    (pullLast.op = "read" /\ pullLast.afterCancel)
        => pullLast.outcome = "stream closed"

\* C2: the ids one notifier instance issues are strictly increasing, over
\* all of its streams (pull) and all of its ticks (push): none is issued twice.
C2_IdsStrictlyIncreasing ==
    /\ \A i, j \in DOMAIN issued : i < j => issued[i] < issued[j]
    /\ \A d, e \in dispatches : d # e => d.id # e.id

\* C3: a second or later cancel() of a subscription changes no state, and a
\* flag that cancel() has set stays set.
C3_CancelIdempotent ==
    /\ (pullLast.op = "cancel" /\ pullLast.afterCancel) => ~pullLast.changed
    /\ \A s \in States : (pushCancelDone[s] /\ held[s]) => cancelled[s]

\* the requests the tick that has just run sent
TickDispatches == {d \in dispatches : d.tick = tickNo}

\* C4: push mode: every tick starts exactly one dispatch for each registered
\* subscriber whose handle is held and whose flag is clear when the tick
\* starts, and none for any other subscriber.
C4_OneDispatchPerEligible ==
    [][tickNo' # tickNo =>
        LET eligible == {s \in Range(subscriptions_) : held[s] /\ ~cancelled[s]}
            sent     == {d \in dispatches' : d.tick = tickNo'}
        IN  /\ {d.sub : d \in sent} = eligible
            /\ Cardinality(sent) = Cardinality(eligible)]_vars

\* C4 witness: a tick with two live subscribers and one abandoned one has
\* sent exactly two requests and left a registry of two entries.
C4_Witness ==
    /\ Cardinality(TickDispatches) = 2
    /\ Len(subscriptions_) = 2
    /\ \E s \in lastPruned : ~held[s] /\ ~cancelled[s]

\* C5: push mode: once a cancel() of a subscription has been processed no
\* later tick dispatches to it, nothing but onNotification is ever sent, and
\* the other held subscribers of the registry are still dispatched to.
C5_NoDispatchAfterCancel ==
    /\ [](\A d \in dispatches : d.method = "onNotification")
    /\ [][tickNo' # tickNo =>
            LET sent == {d \in dispatches' : d.tick = tickNo'}
            IN  /\ \A d \in sent : ~pushCancelDone[d.sub]
                /\ \A s \in Range(subscriptions_) :
                     (held[s] /\ ~pushCancelDone[s]) => \E d \in sent : d.sub = s]_vars

\* C5 witness: a tick has pruned a cancelled subscriber whose handle is still
\* held and has dispatched to another one.
C5_Witness ==
    \E s \in lastPruned :
        /\ pushCancelDone[s] /\ held[s]
        /\ \E d \in TickDispatches : d.sub # s

\* C6: push mode: a subscriber whose handle was dropped before a tick gets no
\* dispatch in that tick and is absent from the registry after it; only a
\* held handle makes a state reachable.
C6_AbandonedIsPruned ==
    /\ [](\A s \in States : Reachable(s) => held[s])
    /\ [][tickNo' # tickNo =>
            \A s \in 1..nstates : ~held[s] =>
                /\ s \notin Range(subscriptions_')
                /\ \A d \in dispatches' : d.tick = tickNo' => d.sub # s]_vars

\* C6 witness: a tick after the first has pruned a subscriber that was
\* abandoned, not cancelled.
C6_Witness ==
    /\ tickNo >= 2
    /\ \E s \in lastPruned : ~held[s] /\ ~pushCancelDone[s]

\* C7: push mode: a failed dispatch ends in its own catch_: no failure reaches
\* the join, no step takes back a request that is still unsettled, and when
\* the join completes the loop schedules its delay.
C7_DispatchFailureIsolated ==
    /\ [](loop # "error" /\ \A d \in dispatches : d.status # "uncaught")
    /\ [][/\ (loop = "joining" /\ loop' # "joining") => loop' = "delay"
          /\ \A d \in dispatches : d.status = "sent" =>
                \E e \in dispatches' :
                    /\ e.tick = d.tick /\ e.sub = d.sub /\ e.id = d.id
                    /\ e.status \in {"sent", "ok", "failed"}]_vars

\* C7 witness: a dispatch of an earlier tick has failed and a later tick has
\* dispatched again.
C7_Witness ==
    /\ lastFailTick >= 1
    /\ tickNo > lastFailTick
    /\ TickDispatches # {}

\* C8: push mode: a tick starts only when the loop is unstarted or in its
\* delay and every earlier dispatch has settled; what it sends goes to
\* entries the prune has kept; unsettled dispatches are of the current tick.
C8_NoTickOverlap ==
    /\ [](\A d \in dispatches : d.status = "sent" => d.tick = tickNo)
    /\ [][tickNo' # tickNo =>
            /\ loop \in {"unset", "delay"}
            /\ \A d \in dispatches : d.status # "sent"
            /\ \A d \in dispatches' : d.tick = tickNo' => d.sub \in Range(subscriptions_')]_vars

\* C8 witness: a second tick has run, pruned an entry and dispatched.
C8_Witness ==
    /\ tickNo >= 2
    /\ lastPruned # {}
    /\ TickDispatches # {}

\* C9: cancel() with no delay pending changes nothing: no callback, no task,
\* no log, and a start() after it schedules its delay as usual.
C9_IdleCancelNoOp ==
    [][/\ (TimerCancel /\ ~Running) =>
            UNCHANGED <<callback, nDelay, nRejected, fired, starts, timerLog,
                        callbackFailed, taskFailed>>
       /\ (TimerStart /\ timerLast.op = "cancel" /\ timerLast.idle) =>
            (nDelay' = 1 /\ nRejected' = nRejected)]_vars

\* C9 witness: the timer was cancelled before its first start, then started,
\* and its callback has fired.
C9_Witness ==
    /\ idleCancelled
    /\ starts = 1
    /\ callback = "log"
    /\ fired = 1
    /\ nDelay = 1
    /\ timerLog = 0
    /\ nRejected = 0

\* C10: after cancel() on a Running timer the callback is not invoked again
\* before a later start, and the task set drains.
C10_NoFireAfterCancel == ~firedAfterCancel

\* chains the canceler has rejected so far: the timer was cancelled while
\* Running at least once iff this is positive
TimerRejectedEver == nRejected + timerLog - callbackFailed

\* C11: a timer that was started and cancelled can be started again on the
\* same instance: the start schedules one pending delay, every expiry invokes
\* the callback once and, when the callback returns, schedules the next
\* delay, and nothing but a cancel or a callback that throws ends the
\* Running state.
C11_RestartAfterCancel ==
    [][/\ (TimerStart /\ TimerRejectedEver > 0 /\ ~Running) =>
            (nDelay' = 1 /\ nRejected' = nRejected /\ fired' = fired)
       /\ (TimerRejectedEver > 0 /\ TimerTick /\ callback # "empty") =>
            (fired' = fired + 1 /\ (callback # "throw" => nDelay' >= 1))
       /\ (Running /\ ~Running') =>
            (timerLast'.op = "cancel" \/ callbackFailed' > callbackFailed)]_vars

\* C11 witness: start, cancel, start with a logging callback, and the callback
\* has just fired with the chain of the second start pending again.
C11_Witness ==
    /\ starts = 2
    /\ callback = "log"
    /\ timerLog = 1
    /\ callbackFailed = 0
    /\ nRejected = 0
    /\ nDelay = 1
    /\ fired >= 1
    /\ timerLast.op = "tick"

\* C12: timeoutSafe hands no error to its caller: whatever the guarded
\* operation does, the returned promise becomes true or false, and it becomes
\* false when the operation fails.
C12_NeverPropagates ==
    /\ result \in {"none", "pending", "true", "false"}
    /\ (opState = "consumed" /\ opKind \in {"fail", "cancelled"}) => result = "false"

\* the race is over
Settled == result \notin {"none", "pending"}

\* the operation ran to its end with success
OpSucceeded == opDoneAt >= 0 /\ Outcome(opKind) = "resolved"

\* C13: timeoutSafe(op, t) becomes true iff op completes successfully before
\* t has elapsed and false otherwise; when the deadline is reached before op
\* has completed the result is false.
C13_TrueIffCompletedInTime ==
    Settled =>
        /\ result \in {"true", "false"}
        /\ result = "true" => (OpSucceeded /\ opDoneAt <= deadline)
        /\ (OpSucceeded /\ opDoneAt < deadline) => result = "true"
        /\ (opDoneAt = -1 \/ opDoneAt > deadline) => result = "false"

\* C14: a canceler that has been cancelled stays cancelled: the delay that
\* scheduleNext wraps after cancel() has been called is rejected at once, so
\* no wrapped delay is pending after that scheduleNext.
C14_CancelledScopeStaysCancelled ==
    [][(TimerTick /\ cancelSeen') => (nDelay' = 0 /\ nRejected' > nRejected)]_vars

\* C15: one cancel on the canceler rejects every delay wrapped at that time,
\* together: a cancel() from outside leaves no delay pending, a cancel() from
\* a callback rejects every chain but the running one, a rejected chain ends
\* in its catch_ and never invokes the callback, and the callback is invoked
\* only by a chain whose delay was pending.
C15_CancelAbortsAllWrapped ==
    [][/\ TimerCancel => (nDelay' = 0 /\ nRejected' = nRejected + nDelay)
       /\ (TimerTick /\ callback = "cancel") =>
            (nDelay' = 1 /\ nRejected' = nRejected + nDelay - 1)
       /\ fired' # fired => (nDelay > 0 /\ nRejected' >= nRejected)
       /\ nRejected' < nRejected =>
            (nRejected' = nRejected - 1 /\ timerLog' = timerLog + 1
             /\ nDelay' = nDelay /\ fired' = fired)]_vars

\* C15 witness: two chains were pending on the canceler and one cancel()
\* has rejected both.
C15_Witness ==
    /\ timerLast.op = "cancel"
    /\ timerLast.rejected = 2
    /\ starts = 2
    /\ nDelay = 0
    /\ nRejected = 2
    /\ fired >= 1

\* C16: pull mode: the reads of one stream that complete return the ids
\* 0, 1, 2, ... with no gap; every read() that passes the check yields one
\* notification, in a later turn of the loop, and an id is consumed only when
\* a read completes.
C16_ReadIdsFromZero ==
    /\ [](\A k \in Subs :
            /\ delivered[k] = [i \in 1..Len(delivered[k]) |-> i - 1]
            /\ Len(delivered[k]) + pending[k] = readsOk[k]
            /\ counter[k] = Len(delivered[k]))
    /\ [][\A k \in Subs :
            /\ readsOk'[k] # readsOk[k] =>
                 (readsOk'[k] = readsOk[k] + 1 /\ pending'[k] = pending[k] + 1
                  /\ delivered' = delivered /\ counter' = counter)
            /\ counter'[k] # counter[k] =>
                 (Len(delivered'[k]) = Len(delivered[k]) + 1
                  /\ pending'[k] = pending[k] - 1)]_vars

\* C16 witness: two reads of one stream have completed, one after the other,
\* and returned 0 and 1.
C16_Witness ==
    \E k \in Subs : delivered[k] = <<0, 1>> /\ pending[k] = 0 /\ readsOk[k] = 2

\* C17: pull mode: the state a subscribe call created lives as long as its
\* stream and subscription handle do: every handle refers to a live state,
\* and no two subscriptions refer to the same state.
C17_StateOutlivesHandles ==
    /\ \A k \in Handles : Alive(k)
    /\ \A j, k \in Handles : j # k => ref[j] # ref[k]

\* pull mode: while no timer is set a subscribe has failed with "Timer not
\* set!" and has created no state and no handle
C18_PullFailsFast ==
    /\ ~pull_timer_ptr_ => (state_ = NoState /\ Handles = {})
    /\ (pullLast.op = "subscribe" /\ ~pull_timer_ptr_) => pullLast.outcome = "Timer not set!"

\* C18: a notifier driven before its dependencies are supplied fails fast:
\* pull-mode subscribe with no timer fails and creates nothing; the push-mode
\* loop runs only with a timer and never dereferences an unset task set.
C18_FailFast ==
    /\ C18_PullFailsFast
    /\ loop # "unset" => push_timer_ptr_
    /\ loop # "crashed"

\* C19: a failure of the timer's chain that is no cancellation, such as an
\* exception of the callback, reaches SimpleErrorHandler::taskFailed: every
\* callback failure is one taskFailed call.
C19_FailureReachesTaskFailed == taskFailed = callbackFailed

\* C20: when the timeout of the guard expires with the done flag unset, the
\* timeout branch calls cancel on the guard's own canceler, the result is
\* false and the operation takes no further step; with the flag set the
\* timeout branch cancels nothing.
C20_TimeoutCancelsOperation ==
    /\ [](~TimeoutBranch("guard", TRUE).cancel /\ (doneFlag => cancelCalls = 0))
    /\ [][/\ (variant = "guard" /\ timeoutP = "pending" /\ timeoutP' = "fired") =>
                IF doneFlag
                THEN cancelCalls' = cancelCalls /\ result' = "true"
                ELSE cancelCalls' = cancelCalls + 1 /\ result' = "false"
                     /\ opState' = "dropped"
          /\ (opState = "dropped" /\ calls' = calls) =>
                (opState' = "dropped" /\ remaining' = remaining
                 /\ opDoneAt' = opDoneAt /\ doneFlag' = doneFlag)]_vars

\* C20 witness: the timeout has cut a ReusableTask that had steps left.
C20_Witness ==
    /\ variant = "guard"
    /\ opKind = "task"
    /\ timeoutP = "fired"
    /\ cancelCalls = 1
    /\ opState = "dropped"
    /\ remaining > 0
    /\ result = "false"
    /\ ~doneFlag

\* C21: cancellation is cooperative: a cancel() issued by the callback does
\* not interrupt the callback, which runs to its end, and it takes effect at
\* the next suspension point: once cancel() has been called no wrapped delay
\* of the timer completes normally before the next start.
C21_CancelAtNextSuspension ==
    [][/\ (TimerTick /\ callback = "cancel") => (fired' = fired + 1 /\ cancelSeen')
       /\ cancelSeen => ~TimerTick]_vars


(* C22: in executer_example every function handed to the executor, from the
   worker thread or from main, and every function queued with evalLater runs
   on the thread that owns the event loop (main), and taskSet.add is only
   ever called from that thread. *)
C22_LoopThreadOnly ==
    /\ \A f \in ExecFns : ranOn[f] \in {"none", "main"}
    /\ \A i \in DOMAIN execLog : execLog[i].tid = "main"
    /\ \A i \in DOMAIN taskSetAdds : taskSetAdds[i] = "main"

\* main has returned: the worker's function and its evalLater, main's
\* function and the task of the task set have all run
C22_Witness ==
    /\ mainPc = "return"
    /\ submittedBy["syncFn"] = "worker"
    /\ \A f \in ExecFns : ranOn[f] = "main"
    /\ taskSetAdds = <<"main">>
    /\ Len(execLog) = 4


(* C23: push-mode subscribe appends exactly one weak entry, for a new state
   whose cancelled flag is false, at the end of the registry; every entry and
   every state that existed keeps its place, its flag and its owner; the
   notification counter is unchanged; the handle that is returned is the only
   strong owner of the new state: when that handle goes the state has
   expired, although its entry is still in the registry. *)
C23_SubscribeFrame ==
    [][/\ PushSubscribe =>
            LET n == nstates + 1
            IN  /\ \A i \in DOMAIN subscriptions_ : subscriptions_[i] # n
                /\ subscriptions_' = Append(subscriptions_, n)
                /\ ~cancelled'[n]
                /\ \A s \in States : s # n =>
                        cancelled'[s] = cancelled[s] /\ held'[s] = held[s]
                /\ notification_counter_' = notification_counter_
                /\ ~held[n] /\ held'[n]
                /\ Reachable(nstates)'
       /\ \A s \in States : (PushDropHandle /\ held[s] /\ ~held'[s]) => Expired(s)'
      ]_vars

\* a third subscribe arrived after a tick, with one earlier handle dropped and
\* one earlier subscription cancelled; then its handle was dropped too
C23_Witness ==
    /\ subscriptions_ = <<1, 2, 3>>
    /\ ~held[1] /\ held[2] /\ cancelled[2]
    /\ ~held[3] /\ ~cancelled[3]
    /\ notification_counter_ = 1


(* C24: start does not invoke the callback: it wraps one delay and returns.
   The callback is invoked only by the chain of a delay that has expired,
   once per expired delay, and the chain then wraps exactly one new delay
   (delay, callback, re-schedule): so one delay expires before the first
   invocation and one between any two consecutive invocations. *)
C24_DelayBeforeEachCall ==
    [][/\ TimerStart => (fired' = fired /\ nDelay' = nDelay + 1)
       /\ fired' # fired => (TimerTick /\ nDelay > 0 /\ fired' = fired + 1)
       /\ (TimerTick /\ callback \in {"empty", "log"}) => nDelay' = nDelay
      ]_vars

\* one start with a logging callback, and the callback has been invoked for
\* the third time with the next delay pending
C24_Witness ==
    /\ starts = 1
    /\ callback = "log"
    /\ fired = 3
    /\ nDelay = 1
    /\ timerLog = 0
    /\ timerLast.op = "tick"


(* C25: whatever start and cancel calls one scheduler receives, at most one
   wrapped delay is pending at a time; a start while a delay is pending adds
   no second chain. *)
C25_AtMostOneChain == nDelay <= 1


(* C26: the task set of a started scheduler becomes empty only when a chain
   that a cancel rejected finishes: between two ticks the next chain is
   already in the task set, so without a cancel onEmpty() never resolves. *)
C26_EmptyOnlyAfterCancel ==
    [][(TaskSetSize > 0 /\ TaskSetSize' = 0) => TimerTaskCancelled]_vars


(* C27: a cancel of a Running scheduler rejects one chain, whose catch_ logs
   one "Timer canceled" line; a cancel with nothing pending, a repeated
   cancel included, rejects nothing and so logs nothing. *)
C27_CancelLoggedOnce ==
    [][TimerCancel => (nRejected' - nRejected) = (IF Running THEN 1 ELSE 0)]_vars


(* C28: in timeoutSafe the canceler and the done flag are released only when
   both branches of the race have settled or been discarded, and every step
   of a branch (a step of the wrapped operation, the completion branch that
   writes or reads the flag, the timeout branch that reads the flag and
   cancels the scope) happens while they are still allocated. *)
C28_OwnersOutliveBranches ==
    [][/\ (variant = "guard" /\ (GuardBusyRun \/ GuardOpReady \/ GuardOpStep \/ GuardTimeout))
            => attached
       /\ (attached /\ ~attached')
            => (opState \in {"consumed", "dropped"} /\ timeoutP \in {"fired", "dropped"})
      ]_vars

\* the timeout won, cancelled the operation through the scope, main took the
\* result and the owners were released
C28_Witness ==
    /\ variant = "guard"
    /\ guardLast = "release"
    /\ ~attached
    /\ cancelCalls = 1
    /\ result = "false"
    /\ opState = "dropped"


(* C29: the prune step of a tick leaves in the registry exactly the entries
   whose state had an owner and was not cancelled when the tick began, in the
   order they were subscribed in: no such entry is removed, no other is
   kept. *)
C29_PruneExact ==
    [][tickNo' # tickNo =>
            subscriptions_' = SelectSeq(subscriptions_,
                                        LAMBDA s : held[s] /\ ~cancelled[s])]_vars

\* a tick has just pruned the cancelled second of three entries, whose handle
\* is still held, and kept the first and the third in their order
C29_Witness ==
    /\ loop = "joining"
    /\ lastPruned = {2}
    /\ held[2] /\ cancelled[2]
    /\ subscriptions_ = <<1, 3>>
    /\ \A d \in dispatches : d.tick = tickNo => d.status = "sent"


\* the notification loop is alive: it waits for the dispatches of a tick or
\* for the 1 s delay
LoopAlive == loop \in {"joining", "delay"}

\* SpecPush with the scheduling of the event loop: a request that was sent
\* settles, a chain whose dispatches have settled continues, and the 1 s
\* delay expires
SpecPushFair ==
    /\ SpecPush
    /\ WF_vars(PushSettle /\ UNCHANGED <<pullVars, timerVars, guardVars, execVars, clientVars, taskVars, pollVars, logVars>>)
    /\ WF_vars(PushJoinDone /\ UNCHANGED <<pullVars, timerVars, guardVars, execVars, clientVars, taskVars, pollVars, logVars>>)
    /\ WF_vars(PushTick /\ UNCHANGED <<pullVars, timerVars, guardVars, execVars, clientVars, taskVars, pollVars, logVars>>)

(* C30: a notification loop that is alive stays alive; when the dispatches
   settle the next tick starts, so every tick that is followed (MaxTicks of
   them) is reached; and every tick dispatches to every entry whose handle
   is held and that is not cancelled, whatever happens to the others. *)
C30_LoopKeepsTicking ==
    /\ [][LoopAlive => LoopAlive']_vars
    /\ [][tickNo' # tickNo =>
            \A i \in DOMAIN subscriptions_ :
                (held[subscriptions_[i]] /\ ~cancelled[subscriptions_[i]]) =>
                    \E d \in dispatches' :
                        d.sub = subscriptions_[i] /\ d.tick = tickNo' /\ d.status = "sent"]_vars
    /\ LoopAlive ~> (tickNo = MaxTicks)

\* the last tick that is followed has started after a dispatch of an earlier
\* tick failed, and it dispatched to a subscriber of the first tick
C30_Witness ==
    /\ LoopAlive
    /\ tickNo = MaxTicks
    /\ lastFailTick >= 1 /\ lastFailTick < tickNo
    /\ \E d \in dispatches : d.sub = 1 /\ d.tick = tickNo


(* C31: a read of a pull stream that passed its cancelled check is not
   aborted by a later cancel: when its delay has expired it delivers a
   notification with the next id of its stream, whatever the flag is then;
   and a read is refused ("stream closed") only if it starts after a cancel
   of its subscription was processed. *)
C31_InFlightReadCompletes ==
    [][/\ \A k \in Subs :
            (pending[k] > 0 /\ PullCancel /\ pullLast'.k = k) => pending'[k] = pending[k]
       /\ \A k \in Subs :
            pending'[k] < pending[k] =>
                /\ delivered'[k] = Append(delivered[k], counter[k])
                /\ counter'[k] = counter[k] + 1
       /\ (pullLast'.op = "read" /\ pullLast'.outcome = "stream closed"
              /\ readsStarted' # readsStarted)
            => cancelDone[pullLast'.k]
      ]_vars


(* C32: a pull-mode client has one read outstanding at a time; once the
   server has processed its cancel it receives at most one more notification,
   that of the read that was in flight, and the next read it starts is
   refused, which ends its read loop. *)
C32_ClientStopsAfterCancel ==
    [][\A c \in Clients :
            /\ session'[c] # 0 => pending'[session'[c]] <= 1
            /\ notesAfterCancel'[c] <= 1
            /\ (cancelTimer[c] = "processed" /\ clientPc[c] = "loop" /\ clientPc'[c] # "loop")
                    => clientPc'[c] = "ended"
      ]_vars


(* C33: for every totalMs the remaining counter of a started ReusableTask
   only goes down, by 100 per step, and never wraps around below 0: it is
   never above totalMs, and the task is complete once totalMs has been waited
   for in 100 ms steps. *)
C33_RemainingNeverWraps ==
    /\ taskRemaining.hi = 0
    /\ taskRemaining.lo <= taskTotal
    /\ (taskState = "waiting" => taskSteps * StepMs < taskTotal)
    /\ (taskState = "complete" => taskRemaining = U32(0))


\* SpecPoll with the scheduling of the client's event loop: a timer that is
\* due fires, and a wait whose promise has resolved returns
SpecPollFair ==
    /\ SpecPoll
    /\ WF_vars(PollPrintAgain /\ UNCHANGED <<pullVars, pushVars, timerVars, guardVars, execVars, clientVars, taskVars, logVars>>)
    /\ WF_vars(PollCancelSent /\ UNCHANGED <<pullVars, pushVars, timerVars, guardVars, execVars, clientVars, taskVars, logVars>>)
    /\ WF_vars(PollOnEmpty /\ UNCHANGED <<pullVars, pushVars, timerVars, guardVars, execVars, clientVars, taskVars, logVars>>)

(* C34: in the push-mode client every task of the task set eventually
   finishes: once the 10 s timer has sent the cancel the task set becomes
   empty, task_set.onEmpty() resolves and main returns, however many
   notifications were received before. *)
C34_ClientReturnsAfterCancel == (pollCancel = "sent") ~> (pollMain = "returned")


\* C35: stop() always terminates: once a thread is inside stop(), whatever
\* the interleaving with the worker (stop_flag_ set and notify_all issued
\* while the worker is between its predicate check and its wait included),
\* the worker leaves its loop and join returns; and the worker leaves only
\* with an empty queue, everything queued before having been printed.
C35_StopTerminates ==
    /\ [][(logWorkerPc' = "exited" /\ logWorkerPc # "exited")
            => (log_queue_ = <<>> /\ logPrinted = logEnqueued)]_vars
    /\ (stopPc # "idle") ~> (stopPc = "done")


\* C36: every message pushed by a ~LogStream is printed exactly once and in
\* the order of the pushes, whatever the number of logging threads: what has
\* been printed, followed by what is queued, is what was pushed; a message
\* queued while the worker runs is eventually printed; and start() and
\* ensureInitialized() together create at most one worker thread.
C36_FifoExactlyOnce ==
    /\ [](logPrinted \o log_queue_ = logEnqueued)
    /\ [](workerThreads <= 1)
    /\ \A t \in LogThreads : \A n \in 1..MaxLogMsgs :
          (logSent[t] >= n /\ logWorkerPc # "exited")
              ~> (\E i \in 1..Len(logPrinted) : logPrinted[i] = <<t, n>>)

\* the worker has left after stop() with messages of two threads printed in
\* the order they were pushed
C36_Witness ==
    /\ logWorkerPc = "exited"
    /\ stopPc = "done"
    /\ Len(logPrinted) >= 2
    /\ logPrinted = logEnqueued
    /\ \E i, j \in 1..Len(logPrinted) : i < j /\ logPrinted[i][1] > logPrinted[j][1]
    /\ workerThreads = 1

=============================================================================
